---- MODULE Spec2Model ----
(***************************************************************************)
(* The /run_code endpoint of app/main.py (run_code_route) as a state       *)
(* machine.  Every invocation of the handler is a process h that walks     *)
(* through the handler's statements; every filesystem call and the child   *)
(* process are separate steps, so that the workspace (the only state the   *)
(* invocations share) is observed between them.                            *)
(*                                                                         *)
(* Environment: os.makedirs of the workspace root succeeds; open/write of  *)
(* the scratch file and os.remove may fail (IOError / OSError), launching  *)
(* the interpreter may fail, the child may exit, be ended by a signal or   *)
(* run past the ceiling, and may leave descendants of its own.             *)
(***************************************************************************)
EXTENDS Integers, Sequences, FiniteSets, TLC

\* ------------------------------------------------------------------ bounds
NumHandlers == 2      \* handler invocations the model has room for
MaxNameLen == 2       \* longest filename, in characters
MaxExitCode == 1      \* child exit statuses 0..MaxExitCode
MaxSignal == 2        \* signals 1..MaxSignal can end the child

Handlers == 1..NumHandlers
SeqHandlers == {1}

\* --------------------------------------------------------------- requests
Alphabet == {"a", ".", "/"}
Names == UNION {[1..n -> Alphabet] : n \in 0..MaxNameLen}
CodeTexts == {"p", "q"}
Languages == {"python", "bash"}
Keys == {"code", "filename", "language"}

\* request.get_json() yielded nothing
NoJSON == [kind |-> "none", keys |-> {}, code |-> "", filename |-> <<>>, language |-> ""]

\* no request bound to the invocation yet
NoReq == [kind |-> "nil", keys |-> {}, code |-> "", filename |-> <<>>, language |-> ""]

\* JSON objects with any subset of the three keys, string values
ObjectBodies ==
    {b \in [kind : {"object"}, keys : SUBSET Keys, code : {""} \cup CodeTexts,
            filename : Names, language : {""} \cup Languages] :
        /\ ("code" \notin b.keys => b.code = "")
        /\ ("filename" \notin b.keys => b.filename = <<>>)
        /\ ("language" \in b.keys <=> b.language # "")}

\* a JSON value that is truthy and not an object, such as [1]
NonObjectJSON == [kind |-> "array", keys |-> {}, code |-> "", filename |-> <<>>, language |-> ""]

Bodies == {NoJSON, NonObjectJSON} \cup ObjectBodies

\* WORKSPACE_DIR = "./workspace"
WORKSPACE_DIR == <<".", "/", "workspace">>

\* `not data`: None or an empty dict
NotData(data) == data.kind = "none" \/ (data.kind = "object" /\ data.keys = {})

\* data.get(...) on a value that is not a dict raises AttributeError
GetRaises(data) == data.kind = "array"

\* `not code`: data.get('code') is None or ""
NotCode(data) == "code" \notin data.keys \/ data.code = ""

\* `not filename`: data.get('filename') is None or ""
NotFilename(data) == "filename" \notin data.keys \/ data.filename = <<>>

\* data.get('language', 'python')
LanguageOf_NoDefault(data) == data.language

LanguageOf(data) == IF "language" \in data.keys THEN data.language ELSE "python"

\* p.rfind('/') + 1
RfindSlashPlus1(p) ==
    LET S == {i \in 1..Len(p) : p[i] = "/"}
    IN  IF S = {} THEN 0 ELSE CHOOSE i \in S : \A j \in S : j <= i

\* os.path.basename(p) == p[p.rfind('/') + 1:]
Basename(p) == SubSeq(p, RfindSlashPlus1(p) + 1, Len(p))

\* '..' in filename
ContainsDotDot(p) == \E i \in 1..(Len(p) - 1) : p[i] = "." /\ p[i + 1] = "."

FilenameCheckFails_NoDotDot(filename) == Basename(filename) # filename

\* os.path.basename(filename) != filename or '..' in filename
FilenameCheckFails(filename) ==
    Basename(filename) # filename \/ ContainsDotDot(filename)

\* os.path.join(a, b)
PathJoin(a, b) ==
    IF b # <<>> /\ b[1] = "/" THEN b
    ELSE IF a = <<>> \/ a[Len(a)] = "/" THEN a \o b
    ELSE a \o <<"/">> \o b

FullFilePath(filename) == PathJoin(WORKSPACE_DIR, filename)

\* -------------------------------------------------------------- responses
InvalidJSONMsg == <<"Invalid JSON payload">>
MissingMsg == <<"Missing 'code' or 'filename'">>
InvalidFilenameMsg == <<"Invalid filename. Directory traversal attempt detected.">>
UnsupportedMsg(language) == <<"Unsupported language: ", language>>
WriteFailedMsg == <<"Failed to write code to file: ", "IOError">>
TimeoutStderr == <<"Execution timed out after 30 seconds.">>
FaultStderr == <<"An unexpected error occurred during execution: ", "Exception">>

TIMEOUT_RC == -1
FAULT_RC == -2

NoResp == [http |-> 0, kind |-> "none", error |-> <<>>, status |-> "",
           stdout |-> <<>>, stderr |-> <<>>, command_executed |-> <<>>,
           return_code |-> 0]

\* jsonify({"error": msg}), code
ErrorResponse(msg, code) ==
    [NoResp EXCEPT !.http = code, !.kind = "error", !.error = msg]

\* an exception no handler catches: the framework answers 500
UnhandledResponse == [NoResp EXCEPT !.http = 500, !.kind = "unhandled"]

\* ["python", full_file_path]
CommandFor(filename) == <<"python", FullFilePath(filename)>>

StatusOf_NonNegative(returncode) == IF returncode >= 0 THEN "success" ELSE "error"

\* "success" if result.returncode == 0 else "error"
StatusOf(returncode) == IF returncode = 0 THEN "success" ELSE "error"

CompletedResponse_FailOnError(command, returncode, content) ==
    [http |-> IF returncode = 0 THEN 200 ELSE 500, kind |-> "outcome", error |-> <<>>,
     status |-> StatusOf(returncode), stdout |-> <<"stdout", content>>,
     stderr |-> <<"stderr", content>>, command_executed |-> command,
     return_code |-> returncode]

\* the jsonify of lines 72-78 (HTTP 200 by default)
CompletedResponse(command, returncode, content) ==
    [http |-> 200, kind |-> "outcome", error |-> <<>>,
     status |-> StatusOf(returncode), stdout |-> <<"stdout", content>>,
     stderr |-> <<"stderr", content>>, command_executed |-> command,
     return_code |-> returncode]

\* the jsonify of lines 80-86
TimeoutResponse(command) ==
    [http |-> 408, kind |-> "outcome", error |-> <<>>, status |-> "error",
     stdout |-> <<>>, stderr |-> TimeoutStderr, command_executed |-> command,
     return_code |-> TIMEOUT_RC]

\* the jsonify of lines 90-96
FaultResponse(command) ==
    [http |-> 500, kind |-> "outcome", error |-> <<>>, status |-> "error",
     stdout |-> <<>>, stderr |-> FaultStderr, command_executed |-> command,
     return_code |-> FAULT_RC]

\* ------------------------------------------------------- child behaviour
\* Popen.returncode: the exit status, or -N when signal N ended the child
ReturnCodes == (0..MaxExitCode) \cup {-s : s \in 1..MaxSignal}

\* what the submitted program does when run: it ends within the ceiling
\* with a return code, or it does not; it may start processes of its own
Behaviours ==
    [kind : {"exit"}, returncode : ReturnCodes, forks : BOOLEAN]
    \cup [kind : {"hang"}, returncode : {0}, forks : BOOLEAN]

NoBehaviour == [kind |-> "none", returncode |-> 0, forks |-> FALSE]

\* ------------------------------------------------------------------ state
NoFile == "<no file>"
Partial == "<partial>"

VARIABLES
    dirExists,    \* the workspace root directory exists
    files,        \* filename -> content of <workspace>/<filename>, or NoFile
    pc,           \* h -> position of invocation h in run_code_route
    req,          \* h -> the body request.get_json() returned
    resp,         \* h -> the response determined so far (returned at "done")
    child,        \* h -> "none" | "running" | "exited" | "killed"
    beh,          \* h -> behaviour of the child of h
    descendants,  \* h -> a process started by the child of h is running
    ranOn,        \* h -> content of the scratch file when the child started
    createdDir,   \* h -> makedirs of h created the directory
    wrote,        \* h -> "no" | "ok" | "partial" | "open_failed"
    removed,      \* h -> "no" | "ok" | "failed" | "absent"
    spawned,      \* h -> number of child processes h started
    launchFault,  \* h -> launching the child raised
    fe,           \* the /process_instruction request of the frontend
    prov          \* the run of provision_vm.py under trigger_vm_creation

\* the state of the /run_code endpoint, and that of the frontend
rcVars == <<dirExists, files, pc, req, resp, child, beh, descendants, ranOn,
            createdDir, wrote, removed, spawned, launchFault>>
feVars == <<fe, prov>>

vars == <<rcVars, feVars>>

fsVars == <<dirExists, files>>
procVars == <<child, beh, descendants, ranOn, spawned, launchFault>>
histVars == <<createdDir, wrote, removed>>

NoIP == "<none>"

\* no /process_instruction request yet
FeIdle == [pc |-> "idle", env |-> {}, vm_status |-> "", vm_ip |-> NoIP,
           gemini |-> NoReq,
           resp |-> [http |-> 0, error |-> "", message |-> "", vm_status |-> ""]]

\* the provisioning script was not run
ProvIdle == [outcome |-> "none", ip |-> NoIP, ran |-> FALSE, stdout |-> <<>>,
             returncode |-> 0, raised |-> "none",
             result |-> [ok |-> FALSE, value |-> ""]]

Init ==
    /\ fe = FeIdle
    /\ prov = ProvIdle
    /\ dirExists \in BOOLEAN
    /\ files = [n \in Names |-> NoFile]
    /\ pc = [h \in Handlers |-> "idle"]
    /\ req = [h \in Handlers |-> NoReq]
    /\ resp = [h \in Handlers |-> NoResp]
    /\ child = [h \in Handlers |-> "none"]
    /\ beh = [h \in Handlers |-> NoBehaviour]
    /\ descendants = [h \in Handlers |-> FALSE]
    /\ ranOn = [h \in Handlers |-> NoFile]
    /\ createdDir = [h \in Handlers |-> FALSE]
    /\ wrote = [h \in Handlers |-> "no"]
    /\ removed = [h \in Handlers |-> "no"]
    /\ spawned = [h \in Handlers |-> 0]
    /\ launchFault = [h \in Handlers |-> FALSE]

\* os.path.exists(full_file_path); <workspace>/. is the directory itself
PathExists(filename) ==
    IF filename = <<".">> THEN dirExists ELSE files[filename] # NoFile

\* ---------------------------------------------------------------- actions
Receive_NoMakedirs(h, data) ==
    /\ pc[h] = "idle"
    /\ req' = [req EXCEPT ![h] = data]
    /\ pc' = [pc EXCEPT ![h] = "parse"]
    /\ UNCHANGED <<dirExists, createdDir, files, resp, wrote, removed>>
    /\ UNCHANGED procVars
    /\ UNCHANGED feVars

\* lines 14-17: the handler is entered with a request, makedirs(exist_ok)
Receive(h, data) ==
    /\ pc[h] = "idle"
    /\ req' = [req EXCEPT ![h] = data]
    /\ dirExists' = TRUE
    /\ createdDir' = [createdDir EXCEPT ![h] = ~dirExists]
    /\ pc' = [pc EXCEPT ![h] = "parse"]
    /\ UNCHANGED <<files, resp, wrote, removed>>
    /\ UNCHANGED procVars
    /\ UNCHANGED feVars

\* lines 18-35: the three validation returns, in the order of the code
Rejection(data) ==
    IF NotData(data) THEN InvalidJSONMsg
    ELSE IF NotCode(data) \/ NotFilename(data) THEN MissingMsg
    ELSE IF FilenameCheckFails(data.filename) THEN InvalidFilenameMsg
    ELSE <<>>

Validate_AfterWrite(h) ==
    /\ pc[h] = "parse"
    /\ IF Rejection(req[h]) # <<>>
       THEN /\ resp' = [resp EXCEPT ![h] =
                          IF ~NotData(req[h]) /\ GetRaises(req[h]) THEN UnhandledResponse
                          ELSE ErrorResponse(Rejection(req[h]), 400)]
            /\ pc' = [pc EXCEPT ![h] = "done"]
            /\ files' = [files EXCEPT ![req[h].filename] = req[h].code]
            /\ wrote' = [wrote EXCEPT ![h] = "ok"]
       ELSE /\ pc' = [pc EXCEPT ![h] = "write"]
            /\ UNCHANGED <<resp, files, wrote>>
    /\ UNCHANGED <<dirExists, req, createdDir, removed>>
    /\ UNCHANGED procVars
    /\ UNCHANGED feVars

Validate(h) ==
    /\ pc[h] = "parse"
    /\ IF ~NotData(req[h]) /\ GetRaises(req[h])
       THEN /\ resp' = [resp EXCEPT ![h] = UnhandledResponse]
            /\ pc' = [pc EXCEPT ![h] = "done"]
       ELSE IF Rejection(req[h]) # <<>>
       THEN /\ resp' = [resp EXCEPT ![h] = ErrorResponse(Rejection(req[h]), 400)]
            /\ pc' = [pc EXCEPT ![h] = "done"]
       ELSE /\ pc' = [pc EXCEPT ![h] = "write"]
            /\ UNCHANGED resp
    /\ UNCHANGED <<req, fsVars, histVars>>
    /\ UNCHANGED procVars
    /\ UNCHANGED feVars

WriteFile_SharedName(h) ==
    /\ pc[h] = "write"
    /\ \E outcome \in {"ok", "partial", "open_failed"} :
        /\ wrote' = [wrote EXCEPT ![h] = outcome]
        /\ files' = [files EXCEPT ![<<"a">>] =
                        CASE outcome = "ok" -> req[h].code
                          [] outcome = "partial" -> Partial
                          [] OTHER -> @]
        /\ IF outcome = "ok"
           THEN /\ pc' = [pc EXCEPT ![h] = "dispatch"]
                /\ UNCHANGED resp
           ELSE /\ resp' = [resp EXCEPT ![h] = ErrorResponse(WriteFailedMsg, 500)]
                /\ pc' = [pc EXCEPT ![h] = "done"]
    /\ UNCHANGED <<dirExists, req, createdDir, removed>>
    /\ UNCHANGED procVars
    /\ UNCHANGED feVars

\* lines 37-45: open(full_file_path, 'w') and write.  open fails (always
\* for the directory itself), or creates/truncates the file; the write may
\* then fail and leave a part of the code behind.
WriteFile(h) ==
    /\ pc[h] = "write"
    /\ \E outcome \in {"ok", "partial", "open_failed"} :
        /\ req[h].filename = <<".">> => outcome = "open_failed"
        /\ wrote' = [wrote EXCEPT ![h] = outcome]
        /\ files' = [files EXCEPT ![req[h].filename] =
                        CASE outcome = "ok" -> req[h].code
                          [] outcome = "partial" -> Partial
                          [] OTHER -> @]
        /\ IF outcome = "ok"
           THEN /\ pc' = [pc EXCEPT ![h] = "dispatch"]
                /\ UNCHANGED resp
           ELSE /\ resp' = [resp EXCEPT ![h] = ErrorResponse(WriteFailedMsg, 500)]
                /\ pc' = [pc EXCEPT ![h] = "done"]
    /\ UNCHANGED <<dirExists, req, createdDir, removed>>
    /\ UNCHANGED procVars
    /\ UNCHANGED feVars

\* lines 47-53: the language dispatch
Dispatch(h) ==
    /\ pc[h] = "dispatch"
    /\ pc' = [pc EXCEPT ![h] =
                IF LanguageOf(req[h]) = "python" THEN "run" ELSE "lang_exists"]
    /\ UNCHANGED <<req, resp, fsVars, histVars>>
    /\ UNCHANGED procVars
    /\ UNCHANGED feVars

LangExists_NoCleanup(h) ==
    /\ pc[h] = "lang_exists"
    /\ resp' = [resp EXCEPT ![h] =
                  ErrorResponse(UnsupportedMsg(LanguageOf(req[h])), 400)]
    /\ pc' = [pc EXCEPT ![h] = "done"]
    /\ UNCHANGED <<req, fsVars, histVars>>
    /\ UNCHANGED procVars
    /\ UNCHANGED feVars

\* line 53 (and 59 when the file is not there)
LangExists(h) ==
    /\ pc[h] = "lang_exists"
    /\ IF PathExists(req[h].filename)
       THEN /\ pc' = [pc EXCEPT ![h] = "lang_remove"]
            /\ UNCHANGED <<resp, removed>>
       ELSE /\ removed' = [removed EXCEPT ![h] = "absent"]
            /\ resp' = [resp EXCEPT ![h] =
                          ErrorResponse(UnsupportedMsg(LanguageOf(req[h])), 400)]
            /\ pc' = [pc EXCEPT ![h] = "done"]
    /\ UNCHANGED <<req, fsVars, createdDir, wrote>>
    /\ UNCHANGED procVars
    /\ UNCHANGED feVars

\* os.remove(full_file_path) inside try/except OSError: the file goes, or
\* the call raises (also when the file is no longer there) and is logged
Remove(h) ==
    \E outcome \in {"ok", "failed"} :
        /\ outcome = "ok" => files[req[h].filename] # NoFile
        /\ removed' = [removed EXCEPT ![h] = outcome]
        /\ files' = [files EXCEPT ![req[h].filename] =
                        IF outcome = "ok" THEN NoFile ELSE @]

\* lines 54-59
LangRemove(h) ==
    /\ pc[h] = "lang_remove"
    /\ Remove(h)
    /\ resp' = [resp EXCEPT ![h] =
                  ErrorResponse(UnsupportedMsg(LanguageOf(req[h])), 400)]
    /\ pc' = [pc EXCEPT ![h] = "done"]
    /\ UNCHANGED <<dirExists, req, createdDir, wrote>>
    /\ UNCHANGED procVars
    /\ UNCHANGED feVars

\* lines 61-68, 87-96: subprocess.run starts the child, or raises; the
\* program behaves in one of the ways of B
LaunchWith(h, B) ==
    /\ pc[h] = "run"
    /\ \/ /\ launchFault' = [launchFault EXCEPT ![h] = TRUE]
          /\ resp' = [resp EXCEPT ![h] = FaultResponse(CommandFor(req[h].filename))]
          /\ pc' = [pc EXCEPT ![h] = "finally"]
          /\ UNCHANGED <<child, beh, descendants, ranOn, spawned>>
       \/ \E b \in B :
          /\ child' = [child EXCEPT ![h] = "running"]
          /\ beh' = [beh EXCEPT ![h] = b]
          /\ descendants' = [descendants EXCEPT ![h] = b.forks]
          /\ ranOn' = [ranOn EXCEPT ![h] = files[req[h].filename]]
          /\ spawned' = [spawned EXCEPT ![h] = @ + 1]
          /\ pc' = [pc EXCEPT ![h] = "wait"]
          /\ UNCHANGED <<resp, launchFault>>
    /\ UNCHANGED <<req, fsVars, histVars>>
    /\ UNCHANGED feVars

Launch(h) == LaunchWith(h, Behaviours)

\* lines 63-78: the child ends within the ceiling, subprocess.run returns
RunReturns(h) ==
    /\ pc[h] = "wait"
    /\ beh[h].kind = "exit"
    /\ child' = [child EXCEPT ![h] = "exited"]
    /\ resp' = [resp EXCEPT ![h] =
                  CompletedResponse(CommandFor(req[h].filename),
                                    beh[h].returncode, ranOn[h])]
    /\ pc' = [pc EXCEPT ![h] = "finally"]
    /\ UNCHANGED <<req, fsVars, histVars, beh, descendants, ranOn, spawned, launchFault>>
    /\ UNCHANGED feVars

Timeout_Retry(h) ==
    /\ pc[h] = "wait"
    /\ beh[h].kind = "hang"
    /\ child' = [child EXCEPT ![h] = "killed"]
    /\ IF spawned[h] < 2
       THEN /\ pc' = [pc EXCEPT ![h] = "run"]
            /\ UNCHANGED resp
       ELSE /\ resp' = [resp EXCEPT ![h] = TimeoutResponse(CommandFor(req[h].filename))]
            /\ pc' = [pc EXCEPT ![h] = "finally"]
    /\ UNCHANGED <<req, fsVars, histVars, beh, descendants, ranOn, spawned, launchFault>>
    /\ UNCHANGED feVars

Timeout_NoCeiling(h) ==
    /\ pc[h] = "wait"
    /\ beh[h].kind = "hang"
    /\ UNCHANGED vars

\* lines 67, 79-86: the ceiling passes; subprocess.run kills the child it
\* started (Popen.kill of that one process), waits for it, raises
Timeout(h) ==
    /\ pc[h] = "wait"
    /\ beh[h].kind = "hang"
    /\ child' = [child EXCEPT ![h] = "killed"]
    /\ resp' = [resp EXCEPT ![h] = TimeoutResponse(CommandFor(req[h].filename))]
    /\ pc' = [pc EXCEPT ![h] = "finally"]
    /\ UNCHANGED <<req, fsVars, histVars, beh, descendants, ranOn, spawned, launchFault>>
    /\ UNCHANGED feVars

\* line 99
FinallyExists(h) ==
    /\ pc[h] = "finally"
    /\ IF PathExists(req[h].filename)
       THEN /\ pc' = [pc EXCEPT ![h] = "finally_remove"]
            /\ UNCHANGED removed
       ELSE /\ removed' = [removed EXCEPT ![h] = "absent"]
            /\ pc' = [pc EXCEPT ![h] = "done"]
    /\ UNCHANGED <<req, resp, fsVars, createdDir, wrote>>
    /\ UNCHANGED procVars
    /\ UNCHANGED feVars

FinallyRemove_Surfaces(h) ==
    /\ pc[h] = "finally_remove"
    /\ Remove(h)
    /\ resp' = [resp EXCEPT ![h] =
                  IF removed'[h] = "failed"
                  THEN ErrorResponse(<<"Failed to remove temporary file">>, 500) ELSE @]
    /\ pc' = [pc EXCEPT ![h] = "done"]
    /\ UNCHANGED <<dirExists, req, createdDir, wrote>>
    /\ UNCHANGED procVars
    /\ UNCHANGED feVars

\* lines 100-105, then the response determined above is returned
FinallyRemove(h) ==
    /\ pc[h] = "finally_remove"
    /\ Remove(h)
    /\ pc' = [pc EXCEPT ![h] = "done"]
    /\ UNCHANGED <<dirExists, req, resp, createdDir, wrote>>
    /\ UNCHANGED procVars
    /\ UNCHANGED feVars

\* the statements of the handler around the launch of the child
StepsButLaunch(h) ==
    \/ Validate(h)
    \/ WriteFile(h)
    \/ Dispatch(h)
    \/ LangExists(h)
    \/ LangRemove(h)
    \/ RunReturns(h)
    \/ Timeout(h)
    \/ FinallyExists(h)
    \/ FinallyRemove(h)

\* every statement of the handler after it was entered
HandlerStep(h) == StepsButLaunch(h) \/ Launch(h)

Next ==
    \E h \in SeqHandlers :
        \/ \E data \in Bodies : Receive(h, data)
        \/ HandlerStep(h)

Spec == Init /\ [][Next]_vars

\* the handler runs to its return; the ceiling of subprocess.run passes
FairSpec == Spec /\ \A h \in SeqHandlers : WF_vars(HandlerStep(h))

\* requests of concurrent invocations: complete objects over two filenames;
\* python ones with either code for the first filename and one code for
\* the second, and one request that names another language
ConcNames == {<<"a">>, <<".", "a">>}
ConcBodies ==
    {b \in ObjectBodies :
        /\ b.keys = Keys /\ b.code \in CodeTexts /\ b.filename \in ConcNames
        /\ b.filename # <<"a">> => b.code = "q"
        /\ b.language # "python" => (b.code = "p" /\ b.filename = <<"a">>)}

\* programs of concurrent invocations: one that ends and one that does not
ConcBehaviours ==
    {b \in Behaviours : ~b.forks /\ b.returncode = 0}

LaunchConc(h) == LaunchWith(h, ConcBehaviours)

\* the server runs several invocations of the handler in parallel
NextConc ==
    \E h \in Handlers :
        \/ \E data \in ConcBodies : Receive(h, data)
        \/ StepsButLaunch(h)
        \/ LaunchConc(h)

\* the workspace root is yet to be created by the first of them
InitConc == Init /\ ~dirExists

SpecConc == InitConc /\ [][NextConc]_vars

\* --------------------------------------------------------------- frontend
\* gemini-vm-frontend/app.py (process_instruction_route) with
\* gcp_utils.py (get_vm_status, trigger_vm_creation) and the script
\* gcp-vm-tool/provision_vm.py that trigger_vm_creation runs.  A line of
\* the script's output is a sequence of the pieces it is printed from.

EnvKeys == {"GCP_PROJECT_ID", "TARGET_VM_ZONE", "PROVISION_VM_SCRIPT_PATH",
            "script file", "GEMINI_API_KEY"}
IPs == {"34.1.2.3", "10.0.0.8"}
VM_NAME_DEFAULT == "code-runner-vm"

\* what the compute API answers to instances.get
ApiResults ==
    [kind : {"found"}, status : {"RUNNING", "TERMINATED"}, ip : IPs \cup {NoIP}]
    \cup {[kind |-> "not_found", status |-> "", ip |-> NoIP],
          [kind |-> "error", status |-> "", ip |-> NoIP]}

\* gcp_utils.get_vm_status
GetVmStatus(env, api) ==
    IF "GCP_PROJECT_ID" \notin env \/ "TARGET_VM_ZONE" \notin env
    THEN [status |-> "ERROR", ip |-> NoIP]
    ELSE IF api.kind = "found" THEN [status |-> api.status, ip |-> api.ip]
    ELSE IF api.kind = "not_found" THEN [status |-> "NOT_FOUND", ip |-> NoIP]
    ELSE [status |-> "ERROR", ip |-> NoIP]

\* how a run of provision_vm.py can go
ScriptOutcomes == {"created", "api_error", "other_error", "no_credentials",
                   "timeout", "launch_error"}

\* the prints of provision_vm.py, lines 165-171
ScriptHeader ==
    << <<"GCP VM Provisioning Script">>, <<"--------------------------">>,
       <<"Ensure GOOGLE_APPLICATION_CREDENTIALS environment variable is set.">> >>

NoCredentialsLines ==
    << <<"Error: The GOOGLE_APPLICATION_CREDENTIALS environment variable is not set.">>,
       <<"Please set it to the path of your GCP service account key file.">> >>

\* lines 179-187 and 22, 120
ScriptSettings(vm_name) ==
    << <<"Using Project ID: ", "project">>, <<"VM Name: ", vm_name>>,
       <<"Zone: ", "us-central1-a">>, <<"Region: ", "us-central1">>,
       <<"Machine Type: ", "zones/us-central1-a/machineTypes/e2-medium">>,
       <<"Runner Repo URL: ", "https://github.com/sompaak/runner.git">>,
       <<"Service Account Scopes: ", "['https://www.googleapis.com/auth/cloud-platform']">>,
       <<"Network: ", "global/networks/default">>,
       <<"Tags: ", "['http-server', 'https-server', 'runner-5000']">>,
       <<"Attempting to create VM '", vm_name, "' in project '", "project", "', zone '",
         "us-central1-a", "'...">>,
       <<"Submitting VM creation request for '", vm_name, "'...">> >>

\* create_vm succeeded: lines 126, 145, 160, then 202
CreatedLines(vm_name, ip) ==
    << <<"Waiting for VM creation operation ", "operation", " to complete...">>,
       <<"VM '", vm_name, "' created successfully.">>,
       <<"VM '", vm_name, "' external IP: ", ip>>,
       <<>>, <<"Provisioning process completed successfully.">> >>

\* GoogleAPIError: lines 149-151, then 206
ApiErrorLines ==
    << <<"An API error occurred while creating or waiting for the VM: ", "error">>,
       <<"Please check your GCP project permissions, quotas, and the provided parameters (project ID, zone, VM name, machine type, image).">>,
       <<"Details: ", "error">>,
       <<>>, <<"Provisioning failed due to a GCP API error. Please review the messages above.">> >>

\* any other exception: lines 208-209
OtherErrorLines ==
    << <<>>, <<"An unexpected error occurred during the provisioning process: ", "error">>,
       <<"Please check the script, logs, and your GCP project settings.">> >>

\* line 221
ReminderLines ==
    << <<>>, <<"Reminder: Ensure firewall rule 'allow-runner-5000' exists for TCP port 5000, targeting the 'runner-5000' tag.">> >>

\* the standard output of provision_vm.py __main__
ScriptStdout(outcome, vm_name, ip) ==
    CASE outcome = "no_credentials" -> ScriptHeader \o NoCredentialsLines
      [] outcome = "created" ->
            ScriptHeader \o ScriptSettings(vm_name) \o CreatedLines(vm_name, ip) \o ReminderLines
      [] outcome = "api_error" ->
            ScriptHeader \o ScriptSettings(vm_name) \o ApiErrorLines \o ReminderLines
      [] outcome = "other_error" ->
            ScriptHeader \o ScriptSettings(vm_name) \o OtherErrorLines \o ReminderLines
      [] OTHER -> <<>>

\* exit(1) at line 171; every other path runs to the end of the script
ScriptReturnCode(outcome) == IF outcome = "no_credentials" THEN 1 ELSE 0

\* what subprocess.run(check=True, timeout=300) raises, gcp_utils.py line 135
RunRaises(outcome) ==
    CASE outcome = "timeout" -> "TimeoutExpired"
      [] outcome = "launch_error" -> "Exception"
      [] ScriptReturnCode(outcome) # 0 -> "CalledProcessError"
      [] OTHER -> "none"

\* "External IP:" in line
HasExternalIP(line) == \E i \in 1..Len(line) : line[i] = "External IP: "

\* line.split("External IP:")[-1].strip()
AfterExternalIP(line) ==
    LET S == {i \in 1..Len(line) : line[i] = "External IP: "}
        last == CHOOSE i \in S : \A j \in S : j <= i
    IN  IF last = Len(line) THEN "" ELSE line[last + 1]

\* the line is four dot-separated groups of digits
LooksLikeIP(line) == Len(line) = 1 /\ line[1] \in IPs

\* lines 141-152: the scan of the output from its last line upwards
RECURSIVE ScanForIP(_, _)
ScanForIP(lines, i) ==
    IF i = 0 THEN ""
    ELSE IF lines[i] = <<>> THEN ScanForIP(lines, i - 1)
    ELSE IF HasExternalIP(lines[i]) THEN AfterExternalIP(lines[i])
    ELSE IF LooksLikeIP(lines[i]) THEN lines[i][1]
    ELSE ScanForIP(lines, i - 1)

NotConfiguredMsg == "Path to provisioning script is not configured."
ScriptNotFoundMsg == "Provisioning script not found at the configured path."
NoProjectMsg == "GCP_PROJECT_ID is not configured for provisioning."
NoIPInOutputMsg == "Provisioning script ran, but IP address could not be determined from output."
ProvisioningErrorMsg == "Error during VM provisioning: "
ProvisioningTimeoutMsg == "VM provisioning script timed out."
ProvisioningUnexpectedMsg == "An unexpected error occurred: "

\* trigger_vm_creation, lines 113-123: the configuration is incomplete
TriggerPrecheck(env) ==
    IF "PROVISION_VM_SCRIPT_PATH" \notin env THEN NotConfiguredMsg
    ELSE IF "script file" \notin env THEN ScriptNotFoundMsg
    ELSE IF "GCP_PROJECT_ID" \notin env THEN NoProjectMsg
    ELSE ""

\* trigger_vm_creation, lines 137-171: the value returned after the run
TriggerResult(raised, stdout) ==
    CASE raised = "CalledProcessError" -> [ok |-> FALSE, value |-> ProvisioningErrorMsg]
      [] raised = "TimeoutExpired" -> [ok |-> FALSE, value |-> ProvisioningTimeoutMsg]
      [] raised = "Exception" -> [ok |-> FALSE, value |-> ProvisioningUnexpectedMsg]
      [] OTHER ->
            IF ScanForIP(stdout, Len(stdout)) # ""
            THEN [ok |-> TRUE, value |-> ScanForIP(stdout, Len(stdout))]
            ELSE [ok |-> FALSE, value |-> NoIPInOutputMsg]

FeResponse(http, error, message, vm_status) ==
    [http |-> http, error |-> error, message |-> message, vm_status |-> vm_status]

CompleteMsg == "Gemini processing complete. Runner interaction pending."

\* app.py lines 24-34: the request arrives in some environment
FeReceive(env, instruction) ==
    /\ fe.pc = "idle"
    /\ fe' = IF instruction # "given"
             THEN [fe EXCEPT !.env = env, !.pc = "done",
                     !.resp = FeResponse(400,
                                IF instruction = "no json" THEN "No JSON data received."
                                ELSE "No instruction provided in JSON data.", "", "")]
             ELSE [fe EXCEPT !.env = env, !.pc = "status"]
    /\ UNCHANGED <<prov, rcVars>>

\* app.py lines 38-53: get_vm_status and the branch on its answer
FeVmStatus(api) ==
    /\ fe.pc = "status"
    /\ LET st == GetVmStatus(fe.env, api)
       IN  fe' = CASE st.status = "RUNNING" ->
                        [fe EXCEPT !.vm_status = "RUNNING", !.vm_ip = st.ip, !.pc = "have_ip"]
                   [] st.status = "ERROR" ->
                        [fe EXCEPT !.vm_status = "ERROR", !.pc = "done",
                           !.resp = FeResponse(500, "Error checking VM status: ", "", "ERROR")]
                   [] OTHER ->
                        [fe EXCEPT !.vm_status = st.status, !.pc = "provision"]
    /\ UNCHANGED <<prov, rcVars>>

\* gcp_utils.py lines 113-135: the checks, then the script is run
TriggerRun(outcome, ip) ==
    /\ fe.pc = "provision"
    /\ IF TriggerPrecheck(fe.env) # ""
       THEN /\ prov' = [prov EXCEPT !.result = [ok |-> FALSE, value |-> TriggerPrecheck(fe.env)]]
            /\ fe' = [fe EXCEPT !.pc = "provisioned"]
       ELSE /\ prov' = [prov EXCEPT !.outcome = outcome,
                          !.ip = IF outcome = "created" THEN ip ELSE NoIP,
                          !.ran = TRUE,
                          !.stdout = ScriptStdout(outcome, VM_NAME_DEFAULT, ip),
                          !.returncode = ScriptReturnCode(outcome),
                          !.raised = RunRaises(outcome)]
            /\ fe' = [fe EXCEPT !.pc = "parse"]
    /\ UNCHANGED rcVars

\* gcp_utils.py lines 137-171: trigger_vm_creation returns
TriggerReturn ==
    /\ fe.pc = "parse"
    /\ prov' = [prov EXCEPT !.result = TriggerResult(prov.raised, prov.stdout)]
    /\ fe' = [fe EXCEPT !.pc = "provisioned"]
    /\ UNCHANGED rcVars

\* app.py lines 55-66
FeAfterProvision ==
    /\ fe.pc = "provisioned"
    /\ fe' = IF prov.result.ok
             THEN [fe EXCEPT !.vm_ip = prov.result.value,
                     !.vm_status = "RUNNING_AFTER_CREATION", !.pc = "have_ip"]
             ELSE [fe EXCEPT !.pc = "done",
                     !.resp = FeResponse(500, "VM provisioning failed: ", "",
                                         "PROVISIONING_FAILED")]
    /\ UNCHANGED <<prov, rcVars>>

\* what the translator hands back: an error, JSON null, or a JSON object
GeminiError == [NoReq EXCEPT !.kind = "error"]
GeminiOutputs == {GeminiError, NoJSON} \cup ObjectBodies

\* app.py lines 68-158: the address check, the translator call, the answer
FeGemini(out) ==
    /\ fe.pc = "have_ip"
    /\ fe' = [fe EXCEPT !.pc = "done", !.gemini = out,
                !.resp =
                  IF fe.vm_ip = NoIP
                  THEN FeResponse(500, "Could not obtain VM IP address.", "", fe.vm_status)
                  ELSE IF "GEMINI_API_KEY" \notin fe.env
                  THEN FeResponse(500, "GEMINI_API_KEY not configured.", "", "")
                  ELSE IF out.kind = "error"
                  THEN FeResponse(500, "Error processing with Gemini: ", "", fe.vm_status)
                  ELSE IF out.kind = "none" \/ out.keys = {} \/ out.keys # Keys
                  THEN FeResponse(500,
                         "Gemini output did not contain all required fields (filename, code, language).",
                         "", fe.vm_status)
                  ELSE FeResponse(200, "", CompleteMsg, fe.vm_status)]
    /\ UNCHANGED <<prov, rcVars>>

NextFrontend ==
    \/ \E env \in SUBSET EnvKeys, instruction \in {"no json", "missing", "given"} :
          FeReceive(env, instruction)
    \/ \E api \in ApiResults : FeVmStatus(api)
    \/ \E outcome \in ScriptOutcomes, ip \in IPs : TriggerRun(outcome, ip)
    \/ TriggerReturn
    \/ FeAfterProvision
    \/ \E out \in GeminiOutputs : FeGemini(out)

SpecFrontend == Init /\ [][NextFrontend]_vars

\* ----------------------------------------------------------------- claims
Returned(h) == pc[h] = "done"

\* the request got past the three validation returns of lines 18-35
PassedValidation(h) ==
    /\ req[h].kind = "object"
    /\ ~NotCode(req[h]) /\ ~NotFilename(req[h])
    /\ Basename(req[h].filename) = req[h].filename
    /\ ~ContainsDotDot(req[h].filename)

\* '..' in the filename, or the filename is not its own base name
UnsafeFilename(h) ==
    /\ "filename" \in req[h].keys
    /\ (ContainsDotDot(req[h].filename) \/ Basename(req[h].filename) # req[h].filename)

ValidatorMsgs == {InvalidJSONMsg, MissingMsg, InvalidFilenameMsg}

\* C1: after every request that passed validation, on every exit path, the
\* scratch file <workspace>/<filename> does not exist once the response has
\* been returned.
C1_ScratchFileGoneAfterResponse ==
    \A h \in Handlers :
        (Returned(h) /\ PassedValidation(h)) => files[req[h].filename] = NoFile

\* C2 as stated: every request whose filename contains '..' or differs from
\* its base name gets HTTP 400 "Invalid filename" and writes no file.
C2_Original ==
    \A h \in Handlers :
        UnsafeFilename(h) =>
            /\ wrote[h] = "no"
            /\ Returned(h) => (resp[h].http = 400 /\ resp[h].error = InvalidFilenameMsg)

\* C2 (amended): every request with a non-empty code whose filename contains
\* '..' or differs from its base name gets HTTP 400 with the "Invalid
\* filename" error, and no file is written while the request is handled.
C2_UnsafeFilenameRejected ==
    \A h \in Handlers :
        (UnsafeFilename(h) /\ ~NotCode(req[h])) =>
            /\ wrote[h] = "no"
            /\ files = [n \in Names |-> NoFile]
            /\ Returned(h) => (resp[h].http = 400 /\ resp[h].error = InvalidFilenameMsg)

C2_Witness ==
    \E h \in Handlers :
        /\ Returned(h) /\ ~NotCode(req[h])
        /\ ContainsDotDot(req[h].filename)
        /\ Basename(req[h].filename) = req[h].filename
        /\ resp[h].error = InvalidFilenameMsg

\* an otherwise valid request that names a language other than python
UnsupportedRequest(h) == PassedValidation(h) /\ LanguageOf(req[h]) # "python"

C4_MissingFieldRejected ==
    \A h \in Handlers :
        (Returned(h) /\ req[h].kind = "object"
            /\ (NotCode(req[h]) \/ NotFilename(req[h]))) =>
            (resp[h].http = 400 /\ resp[h].error = MissingMsg)

RejectedResponse(h) == Returned(h) /\ resp[h].http = 400

\* C5 as stated: a request that ends in a rejection (malformed, missing
\* field, unsafe filename, unsupported language) has created no directory
\* and written no file.
C5_Original ==
    \A h \in Handlers :
        RejectedResponse(h) => (~createdDir[h] /\ wrote[h] = "no")

\* C5 (amended): a request rejected for a malformed body, a missing field or
\* an unsafe filename is rejected before the handler writes any file or
\* starts any process; all it has done on disk is make sure the workspace
\* root exists.  A request rejected for an unsupported language is rejected
\* after its scratch file was written.
C5_ValidatorRejectsBeforeWrite ==
    \A h \in Handlers :
        RejectedResponse(h) =>
            /\ spawned[h] = 0
            /\ dirExists
            /\ resp[h].error \in ValidatorMsgs =>
                  (wrote[h] = "no" /\ removed[h] = "no")
            /\ resp[h].error \notin ValidatorMsgs =>
                  (wrote[h] = "ok" /\ resp[h].error[1] = "Unsupported language: ")

C5_Witness ==
    \E h \in Handlers :
        /\ RejectedResponse(h)
        /\ resp[h].error = MissingMsg
        /\ createdDir[h] /\ wrote[h] = "no"

\* C6: in every response that carries an execution outcome (normal exit,
\* timeout, fault), status is "success" exactly when return_code is 0.
C6_SuccessIffZero ==
    \A h \in Handlers :
        resp[h].kind = "outcome" =>
            (resp[h].status = "success" <=> resp[h].return_code = 0)

C6_Witness ==
    \E h \in Handlers :
        /\ Returned(h) /\ child[h] = "exited"
        /\ resp[h].status = "error" /\ resp[h].return_code > 0

C8_HangingChildGets408 ==
    \A h \in Handlers :
        (pc[h] = "wait" /\ beh[h].kind = "hang") ~>
            (/\ Returned(h)
             /\ resp[h].http = 408
             /\ resp[h].status = "error"
             /\ resp[h].return_code = -1
             /\ resp[h].stderr = <<"Execution timed out after 30 seconds.">>)

C8_Witness ==
    \E h \in Handlers :
        /\ Returned(h) /\ beh[h].kind = "hang" /\ child[h] = "killed"
        /\ resp[h].http = 408 /\ resp[h].return_code = -1

\* C9: return_code -1 is carried only by a timeout response (408) and -2
\* only by a fault response (500); no child that ended by itself, one ended
\* by a signal included, is reported with -1 or -2.
C9_SentinelsDistinct ==
    \A h \in Handlers :
        (Returned(h) /\ resp[h].kind = "outcome") =>
            /\ resp[h].return_code = -1 => (resp[h].http = 408 /\ child[h] = "killed")
            /\ resp[h].return_code = -2 => (resp[h].http = 500 /\ launchFault[h])
            /\ child[h] = "exited" => resp[h].return_code \notin {-1, -2}

\* C10: once the 408 response has been returned, neither the child nor any
\* process the child started is still running.
C10_ProcessTreeTerminated ==
    \A h \in Handlers :
        (Returned(h) /\ resp[h].http = 408) =>
            (child[h] # "running" /\ ~descendants[h])

\* the path <workspace>/<filename> of the request of h, spelled out
OwnPath(h) == <<".", "/", "workspace", "/">> \o req[h].filename

\* the response the outcome of the execution alone determines
OutcomeOnlyResponse(h) ==
    IF child[h] = "exited"
    THEN [http |-> 200, kind |-> "outcome", error |-> <<>>,
          status |-> IF beh[h].returncode = 0 THEN "success" ELSE "error",
          stdout |-> <<"stdout", ranOn[h]>>, stderr |-> <<"stderr", ranOn[h]>>,
          command_executed |-> <<"python", OwnPath(h)>>,
          return_code |-> beh[h].returncode]
    ELSE IF child[h] = "killed"
    THEN [http |-> 408, kind |-> "outcome", error |-> <<>>, status |-> "error",
          stdout |-> <<>>, stderr |-> <<"Execution timed out after 30 seconds.">>,
          command_executed |-> <<"python", OwnPath(h)>>, return_code |-> -1]
    ELSE IF launchFault[h]
    THEN [http |-> 500, kind |-> "outcome", error |-> <<>>, status |-> "error",
          stdout |-> <<>>,
          stderr |-> <<"An unexpected error occurred during execution: ", "Exception">>,
          command_executed |-> <<"python", OwnPath(h)>>, return_code |-> -2]
    ELSE [http |-> 400, kind |-> "error",
          error |-> <<"Unsupported language: ", req[h].language>>, status |-> "",
          stdout |-> <<>>, stderr |-> <<>>, command_executed |-> <<>>,
          return_code |-> 0]

\* C11: a failure to delete the scratch file never changes the response:
\* for every execution outcome and for the unsupported-language rejection,
\* the status and body returned when the deletion fails (or succeeds) are
\* the ones the outcome alone determines.
C11_CleanupFailureNotSurfaced ==
    \A h \in Handlers :
        (Returned(h) /\ removed[h] \in {"ok", "failed"}) =>
            resp[h] = OutcomeOnlyResponse(h)

C11_Witness ==
    \E h \in Handlers :
        /\ Returned(h) /\ removed[h] = "failed"
        /\ child[h] = "exited" /\ beh[h].returncode = 0
        /\ resp[h].http = 200 /\ resp[h].status = "success"
        /\ files[req[h].filename] # NoFile

\* the request is malformed, lacks code or filename, has an unsafe filename
\* or names a language other than python
InvalidRequest(h) ==
    \/ req[h].kind \in {"none", "array"}
    \/ /\ req[h].kind = "object"
       /\ \/ NotCode(req[h]) \/ NotFilename(req[h])
          \/ ContainsDotDot(req[h].filename)
          \/ Basename(req[h].filename) # req[h].filename
          \/ ("language" \in req[h].keys /\ req[h].language # "python")

\* C12: every request that is malformed (not JSON, or not a JSON object),
\* lacks code/filename, has an unsafe filename, or names an unsupported
\* language gets an HTTP 4xx response (400 "Invalid JSON payload" for a
\* non-JSON body), and no child process is ever started for it.
C12_InvalidRequestGets4xx ==
    \A h \in Handlers :
        InvalidRequest(h) =>
            /\ spawned[h] = 0
            /\ Returned(h) =>
                  /\ resp[h].http \in 400..499
                  /\ req[h].kind = "none" =>
                        (resp[h].http = 400 /\ resp[h].error = InvalidJSONMsg)

\* C13: every response produced after the runner stage was reached carries
\* command_executed = ["python", <workspace>/<filename>] built from the
\* request's own filename; and a valid request that omits language reaches
\* the runner stage just as one with language "python" does.
C13_CommandExecutedAndDefault ==
    \A h \in Handlers :
        /\ resp[h].kind = "outcome" =>
              resp[h].command_executed = <<"python", OwnPath(h)>>
        /\ (PassedValidation(h) /\ Returned(h) /\ wrote[h] = "ok"
                /\ ("language" \notin req[h].keys \/ req[h].language = "python")) =>
              (resp[h].kind = "outcome" /\ (spawned[h] = 1 \/ launchFault[h]))

C13_Witness ==
    \E h \in Handlers :
        /\ Returned(h) /\ PassedValidation(h)
        /\ "language" \notin req[h].keys
        /\ resp[h].kind = "outcome" /\ resp[h].http = 200
        /\ resp[h].command_executed = <<"python", OwnPath(h)>>

\* C14: the workspace root exists once a request has entered the handler
\* (it is created if absent, also when several requests arrive together),
\* and no step of any request removes it.
C14_WorkspaceRootKept ==
    [][/\ dirExists => dirExists'
       /\ \A h \in Handlers : pc'[h] # "idle" => dirExists']_vars

C14_Witness ==
    \E h1, h2 \in Handlers :
        /\ h1 # h2
        /\ pc[h1] \notin {"idle", "done"} /\ pc[h2] \notin {"idle", "done"}
        /\ createdDir[h1] /\ ~createdDir[h2]
        /\ dirExists

\* from the successful write of h up to its own cleanup
InFlight(h) ==
    /\ wrote[h] = "ok"
    /\ pc[h] \in {"dispatch", "lang_exists", "lang_remove", "run", "wait",
                  "finally", "finally_remove"}

\* no other request seen so far uses the filename of h
OwnFilename(h) ==
    /\ req[h].kind = "object"
    /\ \A g \in Handlers \ {h} :
          req[g].kind = "nil" \/ req[g].filename # req[h].filename

\* the response of h as a function of its own request and child only
AloneResponse(h) ==
    IF wrote[h] # "ok"
    THEN [http |-> 500, kind |-> "error",
          error |-> <<"Failed to write code to file: ", "IOError">>, status |-> "",
          stdout |-> <<>>, stderr |-> <<>>, command_executed |-> <<>>,
          return_code |-> 0]
    ELSE IF child[h] = "exited"
    THEN [http |-> 200, kind |-> "outcome", error |-> <<>>,
          status |-> IF beh[h].returncode = 0 THEN "success" ELSE "error",
          stdout |-> <<"stdout", req[h].code>>, stderr |-> <<"stderr", req[h].code>>,
          command_executed |-> <<"python", OwnPath(h)>>,
          return_code |-> beh[h].returncode]
    ELSE OutcomeOnlyResponse(h)

\* C17: for any interleaving of concurrent requests with pairwise different
\* filenames, the child of each request runs on a file holding exactly that
\* request's code, no other request writes or deletes its scratch file, and
\* its response is the one its own request and child determine.
C17_DistinctFilenamesIsolated ==
    \A h \in Handlers :
        OwnFilename(h) =>
            /\ pc[h] \in {"parse", "write"} => files[req[h].filename] = NoFile
            /\ InFlight(h) => files[req[h].filename] = req[h].code
            /\ child[h] # "none" => ranOn[h] = req[h].code
            /\ removed[h] # "absent"
            /\ Returned(h) => resp[h] = AloneResponse(h)

C17_Witness ==
    \E h1, h2 \in Handlers :
        /\ req[h1].kind = "object" /\ req[h2].kind = "object"
        /\ req[h1].filename # req[h2].filename
        /\ req[h1].code # req[h2].code
        /\ Returned(h1) /\ child[h1] = "exited" /\ ranOn[h1] = req[h1].code
        /\ resp[h1].stdout = <<"stdout", req[h1].code>>
        /\ child[h2] = "running" /\ ranOn[h2] = req[h2].code
        /\ files[req[h2].filename] = req[h2].code

\* C18: for any set of concurrent requests, requests with the same filename
\* included, from a request's successful write until its own cleanup the
\* file at its path exists and holds that request's code.
C18_ScratchFileExclusive ==
    \A h \in Handlers :
        InFlight(h) => files[req[h].filename] = req[h].code

\* C19: within one request the scratch file is written before the child is
\* started, the child is started at most once, the file is deleted by the
\* request only when its child has concluded (exited, killed on timeout, or
\* failed to launch; a request that never starts a child has none running),
\* and the response, once determined, is the only one.
C19_StepsInOrderOnce ==
    /\ [](\A h \in Handlers :
            /\ spawned[h] <= 1
            /\ (child[h] # "none" \/ launchFault[h]) => wrote[h] = "ok"
            /\ child[h] = "running" => (removed[h] = "no" /\ pc[h] = "wait")
            /\ (removed[h] # "no" \/ pc[h] \in {"finally", "finally_remove"}) =>
                  /\ child[h] # "running"
                  /\ LanguageOf(req[h]) = "python" =>
                        (child[h] \in {"exited", "killed"} \/ launchFault[h])
            /\ Returned(h) => resp[h].kind # "none")
    /\ [][\A h \in Handlers :
            /\ child[h] \in {"exited", "killed"} => child'[h] = child[h]
            /\ resp[h].kind # "none" => resp'[h] = resp[h]
            /\ Returned(h) => (pc'[h] = "done" /\ resp'[h] = resp[h])]_vars

C19_Witness ==
    \E h \in Handlers :
        /\ Returned(h) /\ spawned[h] = 1 /\ child[h] = "killed"
        /\ wrote[h] = "ok" /\ removed[h] = "ok"
        /\ resp[h].http = 408

\* C15: /process_instruction never answers "Gemini processing complete" for
\* a translator output whose filename contains '..' or a directory part,
\* whose code or filename is empty, or whose language is unsupported.
C15_TranslatorOutputValidated ==
    fe.resp.message = "Gemini processing complete. Runner interaction pending." =>
        /\ fe.gemini.kind = "object"
        /\ ~NotCode(fe.gemini) /\ ~NotFilename(fe.gemini)
        /\ ~ContainsDotDot(fe.gemini.filename)
        /\ Basename(fe.gemini.filename) = fe.gemini.filename
        /\ fe.gemini.language = "python"

\* C16: trigger_vm_creation returns (True, ip) exactly when the script
\* created the VM and reported its external address: (True, that ip) when
\* create_vm succeeded and printed the address, (False, message) when
\* provisioning failed.
C16_TriggerReportsCreatedVm ==
    (fe.pc \in {"provisioned", "have_ip", "done"} /\ prov.ran) =>
        /\ prov.outcome = "created" => prov.result = [ok |-> TRUE, value |-> prov.ip]
        /\ prov.outcome # "created" => ~prov.result.ok

====
